---- MODULE Spec2Model ----
(***************************************************************************)
(* KnightTour_omp.c : backtracking search for knight tours, one OpenMP     *)
(* thread per block of start iterations, results merged under              *)
(* "#pragma omp critical".                                                 *)
(*                                                                         *)
(* The compile-time macros (LX, LY, MAX_START, MAX_PATTERN, MAX_TRY,       *)
(* RANDOM_MOVE_PATTERN), the start cell written into track[0], the number  *)
(* of OpenMP threads, the value of time(NULL) and the result of fopen are  *)
(* the inputs of a run.  They are kept in the record cfg, which is chosen   *)
(* in the initial state and never changes.                                 *)
(***************************************************************************)
EXTENDS Integers, Sequences, FiniteSets, TLC

VARIABLES
    cfg,         \* the configuration of the run (macros, start cell, inputs)
    main_pc,     \* position of the initial thread in main()
    rng,         \* state of the process-wide generator behind rand()
    fc,          \* FILE *fc : "unopened", "open", "null", "closed"
    sink,        \* text appended to ClosedTour.txt, one element per line
    num_found,   \* shared counters of main()
    num_closed,
    num_opened,
    lock,        \* owner of the omp critical region, NoThread when free
    pc,          \* per thread: position in the body of the parallel loop
    num_start,   \* per thread: current iteration of the parallel loop
    num_pattern, \* per thread: current move pattern
    step,        \* per thread: index of the last placed cell
    num_try,     \* per thread: move evaluations of the current attempt
    board,       \* per thread: Board_t
    track,       \* per thread: Track_t, frames [x, y, k]
    move,        \* per thread: Move_t
    shuf_i,      \* per thread: loop counter i of ShuffleMovePattern
    reg,         \* per thread: value loaded from shared memory, not yet stored
    swap_a,      \* per thread: index a of the current swap
    row,         \* per thread: loop counter j of fPrintBoard
    log,         \* history: the full-board events, in order of occurrence
    shuffle_in,  \* history, per thread: the MoveSet when the shuffle began
    swapped,     \* history, per thread: swaps of the shuffle with a /= b
    accepted,    \* history, per thread: the cursors of the path at the last
                 \* AcceptMove of the current attempt, << >> before the first
    run_no,      \* history: 1 in the first run of the program, 2 in a rerun
    prev         \* history: log, sink and counters of the first run

vars == << cfg, main_pc, rng, fc, sink, num_found, num_closed, num_opened,
           lock, pc, num_start, num_pattern, step, num_try, board, track,
           move, shuf_i, reg, swap_a, row, log, shuffle_in, swapped, accepted,
           run_no, prev >>

shared == << rng, fc, sink, num_found, num_closed, num_opened, lock >>

hist == << log, shuffle_in, swapped, accepted, run_no, prev >>

\* number of full-board events that have occurred
events == Len(log)

-----------------------------------------------------------------------------
(* Bounds of the model *)

MaxThreads == 2

BudgetOpen == 22

BudgetClosed == 170

BudgetTiny == 6

BudgetCascade == 50

BudgetExhaust == 600

GarbageCap == 2

-----------------------------------------------------------------------------
(* Program constants *)

MAX_MOVE_PATTERN == 8

RandModulus == 65537

NoThread == -1

\* Move_t move = { {-2,-1},{-2,1},{-1,-2},{-1,2},{1,-2},{1,2},{2,-1},{2,1} }
InitialMove ==
    [i \in 0..(MAX_MOVE_PATTERN - 1) |->
        << <<-2,-1>>, <<-2,1>>, <<-1,-2>>, <<-1,2>>,
           <<1,-2>>, <<1,2>>, <<2,-1>>, <<2,1>> >>[i + 1]]

LX == cfg.LX
LY == cfg.LY
MAX_START == cfg.MAX_START
MAX_PATTERN == cfg.MAX_PATTERN
MAX_TRY == cfg.MAX_TRY
RANDOM_MOVE_PATTERN == cfg.RANDOM_MOVE_PATTERN

N == LX * LY

Threads == 0..(cfg.nthreads - 1)

Cells == (0..(LX - 1)) \X (0..(LY - 1))

Abs(n) == IF n < 0 THEN -n ELSE n

-----------------------------------------------------------------------------
(* The generator behind srand()/rand(): one process-wide state.  rand()    *)
(* reads the state, advances it and returns the new state; the swap index  *)
(* is that value modulo MAX_MOVE_PATTERN.                                  *)

Srand(seed) == seed % RandModulus

\* a clock that has advanced between two runs of the program
ClockAdvanced(r) == cfg.seed + r - 1

\* line 55: the value time(NULL) returns in run r; a rerun is taken with the
\* same value, so that both runs seed the generator alike
Clock(r) == cfg.seed

NextRand(s) == (s * 75 + 74) % RandModulus

-----------------------------------------------------------------------------
(* Configurations explored.  Each is a set of macro values, a start cell   *)
(* inside the board, a thread count, a clock value and a fopen outcome.    *)

Run(lx, ly, sx, sy, starts, patterns, budget, swaps, nth, seed, ok) ==
    [LX |-> lx, LY |-> ly, sx |-> sx, sy |-> sy, MAX_START |-> starts,
     MAX_PATTERN |-> patterns, MAX_TRY |-> budget,
     RANDOM_MOVE_PATTERN |-> swaps, nthreads |-> nth, seed |-> seed,
     fopen_ok |-> ok]

\* 4x3 board: open tours are found within the budget, by concurrent threads
RunsOpen ==
    { Run(4, 3, 3, 0, 2, 1, BudgetOpen, 1, MaxThreads, 87, TRUE) }

\* 10x3 board: a closed tour is found within the budget
RunsClosed ==
    { Run(10, 3, 5, 0, 1, 1, BudgetClosed, 1, 1, 86, ok) : ok \in BOOLEAN }

\* 4x3 board, two patterns: a full board is followed by a cascade
RunsCascade ==
    { Run(4, 3, 3, 1, 1, 2, BudgetCascade, 1, 1, 84, TRUE) }

\* 4x3 board: the budget is larger than the search space
RunsExhaust ==
    { Run(4, 3, 3, 0, 1, 1, BudgetExhaust, 1, 1, 87, TRUE) }

\* 3x3 board: the search space is exhausted; budgets around 8^(N-1), 8^N
RunsSmall ==
    { Run(3, 3, 2, 2, 1, 1, b, 1, 1, 7, TRUE) : b \in {8^8 - 1, 8^8, 8^9} }

\* the board and the loop counts of the source, with a small budget
RunsSource ==
    { Run(6, 6, 5, 5, 5, 4, BudgetTiny, 10, nth, 86, ok) :
         nth \in {1}, ok \in BOOLEAN }

Runs ==
    RunsOpen \cup RunsCascade \cup RunsClosed \cup RunsExhaust \cup RunsSmall
        \cup RunsSource

-----------------------------------------------------------------------------
(* State after the declarations of main() *)

EmptyBoard == [c \in Cells |-> 0]

InitWith(configs) ==
    /\ cfg \in configs
    /\ main_pc = "check"
    /\ rng = Srand(Clock(1))
    /\ fc = "unopened"
    /\ sink = << >>
    /\ num_found = 0
    /\ num_closed = 0
    /\ num_opened = 0
    /\ lock = NoThread
    /\ pc = [t \in Threads |-> "fork"]
    /\ num_start = [t \in Threads |-> 0]
    /\ num_pattern = [t \in Threads |-> 0]
    /\ step = [t \in Threads |-> 0]
    /\ num_try = [t \in Threads |-> 0]
    /\ board = [t \in Threads |-> EmptyBoard]
    /\ track = [t \in Threads |->
                   [s \in 0..(N - 1) |-> [x |-> 0, y |-> 0, k |-> 0]]]
    /\ move = [t \in Threads |-> InitialMove]
    /\ shuf_i = [t \in Threads |-> 0]
    /\ reg = [t \in Threads |-> 0]
    /\ swap_a = [t \in Threads |-> 0]
    /\ row = [t \in Threads |-> 0]
    /\ log = << >>
    /\ shuffle_in = [t \in Threads |-> InitialMove]
    /\ swapped = [t \in Threads |-> 0]
    /\ accepted = [t \in Threads |-> << >>]
    /\ run_no = 1
    /\ prev = [log |-> << >>, sink |-> << >>, num_found |-> 0,
               num_closed |-> 0, num_opened |-> 0]

Init == InitWith(Runs)

private == << pc, num_start, num_pattern, step, num_try, board, track, move,
              shuf_i, reg, swap_a, row >>

-----------------------------------------------------------------------------
(* main(), initial thread *)

\* the comparison written with > instead of >=
BudgetTooLargeStrict(budget, n) == n <= 10 /\ budget > MAX_MOVE_PATTERN ^ n

\* MAX_TRY >= pow(MAX_MOVE_PATTERN, LX*LY); values of the model are below
\* 2^31 < 8^11, so the comparison is false for every board of 11 cells or more
BudgetTooLarge(budget, n) == n <= 10 /\ budget >= MAX_MOVE_PATTERN ^ n

\* lines 61-64: the error message and "return 0"
ConfigError ==
    /\ main_pc = "check"
    /\ BudgetTooLarge(MAX_TRY, N)
    /\ main_pc' = "exit_error"
    /\ UNCHANGED << cfg, shared, private, hist >>

\* line 67: fc = fopen("ClosedTour.txt","a"), unchecked; line 69: fork
OpenSink ==
    /\ main_pc = "check"
    /\ ~BudgetTooLarge(MAX_TRY, N)
    /\ fc' = IF cfg.fopen_ok THEN "open" ELSE "null"
    /\ main_pc' = "parallel"
    /\ UNCHANGED << cfg, rng, sink, num_found, num_closed, num_opened, lock,
                    private, hist >>

\* line 137: fclose(fc) after the implicit barrier of the parallel loop
CloseSink ==
    /\ main_pc = "parallel"
    /\ \A t \in Threads : pc[t] = "joined"
    /\ fc = "open"
    /\ fc' = "closed"
    /\ main_pc' = "report"
    /\ UNCHANGED << cfg, rng, sink, num_found, num_closed, num_opened, lock,
                    private, hist >>

\* line 137 with fc == NULL: fclose(NULL) is undefined; the process is
\* killed or the call returns
CloseNull ==
    /\ main_pc = "parallel"
    /\ \A t \in Threads : pc[t] = "joined"
    /\ fc = "null"
    /\ main_pc' \in {"crashed", "report"}
    /\ UNCHANGED << cfg, shared, private, hist >>

\* lines 139-144: the totals are printed, return 0
Report ==
    /\ main_pc = "report"
    /\ main_pc' = "done"
    /\ UNCHANGED << cfg, shared, private, hist >>

-----------------------------------------------------------------------------
(* "#pragma omp parallel for" without a schedule clause (gcc: static):     *)
(* thread t runs one contiguous block of the MAX_START iterations.         *)

Min(a, b) == IF a < b THEN a ELSE b

FirstStart(t) ==
    t * (MAX_START \div cfg.nthreads) + Min(t, MAX_START % cfg.nthreads)

EndStart(t) ==
    FirstStart(t) + (MAX_START \div cfg.nthreads)
        + (IF t < MAX_START % cfg.nthreads THEN 1 ELSE 0)

-----------------------------------------------------------------------------
(* The functions of the source *)

InBoard(x, y) == 0 <= x /\ x < LX /\ 0 <= y /\ y < LY

\* TryMove: the cell reached from track[stp] by move k is on the board and free
TryMove(stp, k, trk, brd, mv) ==
    LET x == trk[stp].x + mv[k][1]
        y == trk[stp].y + mv[k][2]
    IN  IF InBoard(x, y) THEN brd[<<x, y>>] = 0 ELSE FALSE

\* the frame written without the assignment (*track)[step][2] = 0
AcceptFrameStale(stp, k, trk, mv) ==
    [x |-> trk[stp - 1].x + mv[k][1], y |-> trk[stp - 1].y + mv[k][2],
     k |-> trk[stp].k]

\* AcceptMove, the frame written into track[stp]
AcceptFrame(stp, k, trk, mv) ==
    [x |-> trk[stp - 1].x + mv[k][1], y |-> trk[stp - 1].y + mv[k][2], k |-> 0]

\* AcceptMove, the track after the call
AcceptTrack(stp, k, trk, mv) ==
    [trk EXCEPT ![stp] = AcceptFrame(stp, k, trk, mv)]

\* AcceptMove, the board after the call: (*board)[x][y] = step+1
AcceptBoard(stp, k, trk, brd, mv) ==
    LET f == AcceptFrame(stp, k, trk, mv)
    IN  [brd EXCEPT ![<<f.x, f.y>>] = stp + 1]

\* BackTrace without the write that clears the cell
BackTraceBoardKept(stp, trk, brd) == brd

\* BackTrace, the board after the call: the cell of track[stp] is cleared
BackTraceBoard(stp, trk, brd) ==
    [brd EXCEPT ![<<trk[stp].x, trk[stp].y>>] = 0]

\* BackTrace without the increment of the cursor below
BackTraceTrackSame(stp, trk) == trk

\* BackTrace, the track after the call: (*track)[step-1][2] += 1
BackTraceTrack(stp, trk) ==
    [trk EXCEPT ![stp - 1].k = @ + 1]

\* the test with only its first alternative
IsClosedTourOneWay(x, y, a, b) == Abs(x - a) = 1 /\ Abs(y - b) = 2

IsClosedTour(x, y, a, b) ==
    \/ (Abs(x - a) = 1 /\ Abs(y - b) = 2)
    \/ (Abs(x - a) = 2 /\ Abs(y - b) = 1)

\* the classification skipped: every full board is taken as closed
ClosedAtAlways(trk) == TRUE

\* line 109: the tour of track trk ends a knight move away from its first cell
ClosedAt(trk) ==
    IsClosedTour(trk[N - 1].x, trk[N - 1].y, trk[0].x, trk[0].y)

\* the exchange without the saved copy: entry b keeps its value
SwapMoveNoSave(mv, a, b) == [mv EXCEPT ![a] = mv[b]]

\* the exchange done only when a < b
SwapMoveOrdered(mv, a, b) ==
    IF a < b THEN [mv EXCEPT ![a] = mv[b], ![b] = mv[a]] ELSE mv

\* one iteration of the loop of ShuffleMovePattern: entries a and b exchanged
SwapMove(mv, a, b) ==
    [mv EXCEPT ![a] = mv[b], ![b] = mv[a]]

\* the cursors track[0][2], ..., track[stp][2] of the path of track trk
CursorPath(trk, stp) == [i \in 1..(stp + 1) |-> trk[i - 1].k]

\* ResetBoard
ResetBoard(brd) == [c \in DOMAIN brd |-> 0]

\* fPrintBoard, the text of board row j: the LX values (*board)[i][j]
RowText(brd, j) == [i \in 1..LX |-> brd[<<i - 1, j>>]]

\* the index rand() % MAX_MOVE_PATTERN drawn from generator value r
SwapIndex(r) == r % MAX_MOVE_PATTERN

-----------------------------------------------------------------------------
(* Body of the parallel loop, thread t *)

Running(t) == main_pc = "parallel" /\ t \in Threads

\* the thread takes the first iteration of its block
Fork(t) ==
    /\ Running(t)
    /\ pc[t] = "fork"
    /\ num_start' = [num_start EXCEPT ![t] = FirstStart(t)]
    /\ pc' = [pc EXCEPT ![t] = "iter"]
    /\ UNCHANGED << cfg, main_pc, shared, num_pattern, step, num_try, board,
                    track, move, shuf_i, reg, swap_a, row, hist >>

\* lines 70-80: loop test of num_start; the declarations of the body
\* (move re-initialised, track[0] set to the start cell), num_pattern = 0
NextStart(t) ==
    /\ Running(t)
    /\ pc[t] = "iter"
    /\ IF num_start[t] < EndStart(t)
       THEN /\ move' = [move EXCEPT ![t] = InitialMove]
            /\ track' = [track EXCEPT ![t][0].x = cfg.sx, ![t][0].y = cfg.sy]
            /\ num_pattern' = [num_pattern EXCEPT ![t] = 0]
            /\ pc' = [pc EXCEPT ![t] = "pattern"]
       ELSE /\ pc' = [pc EXCEPT ![t] = "joined"]
            /\ UNCHANGED << move, track, num_pattern >>
    /\ UNCHANGED << cfg, main_pc, shared, num_start, step, num_try, board,
                    shuf_i, reg, swap_a, row, hist >>

\* lines 80-83: loop test of num_pattern; step = 0; ShuffleMovePattern entered
NextPattern(t) ==
    /\ Running(t)
    /\ pc[t] = "pattern"
    /\ IF num_pattern[t] < MAX_PATTERN
       THEN /\ step' = [step EXCEPT ![t] = 0]
            /\ shuf_i' = [shuf_i EXCEPT ![t] = 0]
            /\ pc' = [pc EXCEPT ![t] = "shuffle"]
            /\ shuffle_in' = [shuffle_in EXCEPT ![t] = move[t]]
            /\ swapped' = [swapped EXCEPT ![t] = 0]
            /\ UNCHANGED num_start
       ELSE /\ num_start' = [num_start EXCEPT ![t] = @ + 1]
            /\ pc' = [pc EXCEPT ![t] = "iter"]
            /\ UNCHANGED << step, shuf_i, shuffle_in, swapped >>
    /\ UNCHANGED << cfg, main_pc, shared, num_pattern, num_try, board, track,
                    move, reg, swap_a, row, log, accepted, run_no, prev >>

\* lines 192-201 with the indices a and b drawn: the two entries are
\* exchanged; ++i
SwapDrawn(t, a, b) ==
    /\ move' = [move EXCEPT ![t] = SwapMove(@, a, b)]
    /\ shuf_i' = [shuf_i EXCEPT ![t] = @ + 1]
    /\ swapped' = [swapped EXCEPT ![t] = IF a = b THEN @ ELSE @ + 1]
    /\ pc' = [pc EXCEPT ![t] = "shuffle"]

\* line 190, first half of rand(): the generator state is read
RandLoadA(t) ==
    /\ Running(t)
    /\ pc[t] = "shuffle"
    /\ shuf_i[t] < RANDOM_MOVE_PATTERN
    /\ reg' = [reg EXCEPT ![t] = rng]
    /\ pc' = [pc EXCEPT ![t] = "rand_a"]
    /\ UNCHANGED << cfg, main_pc, shared, num_start, num_pattern, step,
                    num_try, board, track, move, shuf_i, swap_a, row, hist >>

\* line 190, second half of rand(): the state is advanced and written back
RandStoreA(t) ==
    /\ Running(t)
    /\ pc[t] = "rand_a"
    /\ rng' = NextRand(reg[t])
    /\ swap_a' = [swap_a EXCEPT ![t] = SwapIndex(rng')]
    /\ pc' = [pc EXCEPT ![t] = "shuffle_b"]
    /\ UNCHANGED << cfg, main_pc, fc, sink, num_found, num_closed, num_opened,
                    lock, num_start, num_pattern, step, num_try, board, track,
                    move, shuf_i, reg, row, hist >>

\* line 191, first half of rand()
RandLoadB(t) ==
    /\ Running(t)
    /\ pc[t] = "shuffle_b"
    /\ reg' = [reg EXCEPT ![t] = rng]
    /\ pc' = [pc EXCEPT ![t] = "rand_b"]
    /\ UNCHANGED << cfg, main_pc, shared, num_start, num_pattern, step,
                    num_try, board, track, move, shuf_i, swap_a, row, hist >>

\* line 191, second half of rand(); lines 192-201: the two entries exchanged
RandStoreB(t) ==
    /\ Running(t)
    /\ pc[t] = "rand_b"
    /\ rng' = NextRand(reg[t])
    /\ SwapDrawn(t, swap_a[t], SwapIndex(rng'))
    /\ UNCHANGED << cfg, main_pc, fc, sink, num_found, num_closed, num_opened,
                    lock, num_start, num_pattern, step, num_try, board, track,
                    reg, swap_a, row, log, shuffle_in, accepted, run_no,
                    prev >>

\* BeginSearch with board declared before the parallel loop, where it is
\* shared by the threads: the reset clears the board every thread works on
BeginSearchShared(t) ==
    /\ Running(t)
    /\ pc[t] = "shuffle"
    /\ shuf_i[t] >= RANDOM_MOVE_PATTERN
    /\ board' = [u \in Threads |->
                    [ResetBoard(board[u]) EXCEPT
                        ![<<track[t][0].x, track[t][0].y>>] = 1]]
    /\ track' = [track EXCEPT ![t][0].k = 0]
    /\ num_try' = [num_try EXCEPT ![t] = 0]
    /\ IF 0 < MAX_TRY
       THEN pc' = [pc EXCEPT ![t] = "try"] /\ UNCHANGED num_pattern
       ELSE /\ pc' = [pc EXCEPT ![t] = "pattern"]
            /\ num_pattern' = [num_pattern EXCEPT ![t] = @ + 1]
    /\ accepted' = [accepted EXCEPT ![t] = << >>]
    /\ UNCHANGED << cfg, main_pc, shared, num_start, step, move, shuf_i, reg,
                    swap_a, row, log, shuffle_in, swapped, run_no, prev >>

\* lines 84-90: after the shuffle the board is reset, the start cell marked,
\* the cursor of frame 0 and num_try cleared; first test of the while loop
BeginSearch(t) ==
    /\ Running(t)
    /\ pc[t] = "shuffle"
    /\ shuf_i[t] >= RANDOM_MOVE_PATTERN
    /\ board' = [board EXCEPT ![t] =
                    [ResetBoard(@) EXCEPT
                        ![<<track[t][0].x, track[t][0].y>>] = 1]]
    /\ track' = [track EXCEPT ![t][0].k = 0]
    /\ num_try' = [num_try EXCEPT ![t] = 0]
    /\ IF 0 < MAX_TRY
       THEN pc' = [pc EXCEPT ![t] = "try"] /\ UNCHANGED num_pattern
       ELSE /\ pc' = [pc EXCEPT ![t] = "pattern"]
            /\ num_pattern' = [num_pattern EXCEPT ![t] = @ + 1]
    /\ accepted' = [accepted EXCEPT ![t] = << >>]
    /\ UNCHANGED << cfg, main_pc, shared, num_start, step, move, shuf_i, reg,
                    swap_a, row, log, shuffle_in, swapped, run_no, prev >>

\* the test of "while( num_try<MAX_TRY )" with nt evaluations counted: the
\* loop goes on, or the pattern ends and ++num_pattern is executed
WhileTest(t, nt) ==
    IF nt < MAX_TRY
    THEN pc' = [pc EXCEPT ![t] = "try"] /\ UNCHANGED num_pattern
    ELSE /\ pc' = [pc EXCEPT ![t] = "pattern"]
         /\ num_pattern' = [num_pattern EXCEPT ![t] = @ + 1]

\* lines 92-96: TryMove fails; ++num_try; ++*k
TryFail(t) ==
    /\ Running(t)
    /\ pc[t] = "try"
    /\ ~TryMove(step[t], track[t][step[t]].k, track[t], board[t], move[t])
    /\ num_try' = [num_try EXCEPT ![t] = @ + 1]
    /\ track' = [track EXCEPT ![t][step[t]].k = @ + 1]
    /\ pc' = [pc EXCEPT ![t] =
                 IF track'[t][step[t]].k = MAX_MOVE_PATTERN
                 THEN "cascade" ELSE "try"]
    /\ UNCHANGED << cfg, main_pc, shared, num_start, num_pattern, step, board,
                    move, shuf_i, reg, swap_a, row, hist >>

\* lines 92, 101-104: TryMove succeeds; ++num_try; AcceptMove(++step, *k);
\* the test "step == LX*LY-1", else the next test of the while loop
TryAccept(t) ==
    /\ Running(t)
    /\ pc[t] = "try"
    /\ TryMove(step[t], track[t][step[t]].k, track[t], board[t], move[t])
    /\ num_try' = [num_try EXCEPT ![t] = @ + 1]
    /\ step' = [step EXCEPT ![t] = @ + 1]
    /\ track' = [track EXCEPT ![t] =
                    AcceptTrack(step[t] + 1, @[step[t]].k, @, move[t])]
    /\ board' = [board EXCEPT ![t] =
                    AcceptBoard(step[t] + 1, track[t][step[t]].k, track[t],
                                @, move[t])]
    /\ IF step'[t] = N - 1
       THEN /\ pc' = [pc EXCEPT ![t] = "critical"]
            /\ log' = Append(log, [board |-> board'[t],
                                    closed |-> ClosedAt(track'[t]),
                                    start |-> num_start[t],
                                    pattern |-> num_pattern[t]])
            /\ UNCHANGED num_pattern
       ELSE /\ WhileTest(t, num_try'[t])
            /\ UNCHANGED log
    /\ accepted' = [accepted EXCEPT ![t] = CursorPath(track'[t], step'[t])]
    /\ UNCHANGED << cfg, main_pc, shared, num_start, move, shuf_i, reg,
                    swap_a, row, shuffle_in, swapped, run_no, prev >>

\* k = BackTrace(step--, ...) with step >= 1, then the test "*k==MAX_MOVE_PATTERN"
BackTraceStep(t) ==
    /\ step[t] >= 1
    /\ board' = [board EXCEPT ![t] = BackTraceBoard(step[t], track[t], @)]
    /\ track' = [track EXCEPT ![t] = BackTraceTrack(step[t], @)]
    /\ step' = [step EXCEPT ![t] = @ - 1]

\* k = BackTrace(step--, ...) with step == 0: the start cell is cleared and
\* track[-1][2], outside the array, is incremented and then read
BackTraceBelow(t) ==
    /\ Running(t)
    /\ pc[t] \in {"cascade", "cascade_full"}
    /\ step[t] = 0
    /\ board' = [board EXCEPT ![t] = BackTraceBoard(0, track[t], @)]
    /\ step' = [step EXCEPT ![t] = -1]
    /\ pc' = [pc EXCEPT ![t] = "undefined"]
    /\ UNCHANGED << cfg, main_pc, shared, num_start, num_pattern, num_try,
                    track, move, shuf_i, reg, swap_a, row, hist >>

\* lines 96-98: the cascade inside the TryMove loop
Cascade(t) ==
    /\ Running(t)
    /\ pc[t] = "cascade"
    /\ BackTraceStep(t)
    /\ pc' = [pc EXCEPT ![t] =
                 IF track'[t][step'[t]].k = MAX_MOVE_PATTERN
                 THEN "cascade" ELSE "try"]
    /\ UNCHANGED << cfg, main_pc, shared, num_start, num_pattern, num_try,
                    move, shuf_i, reg, swap_a, row, hist >>

\* line 124: the BackTrace forced after a full board
ForcedBackTrace(t) ==
    /\ Running(t)
    /\ pc[t] = "backtrace"
    /\ BackTraceStep(t)
    /\ IF track'[t][step'[t]].k = MAX_MOVE_PATTERN
       THEN pc' = [pc EXCEPT ![t] = "cascade_full"] /\ UNCHANGED num_pattern
       ELSE WhileTest(t, num_try[t])
    /\ UNCHANGED << cfg, main_pc, shared, num_start, num_try, move, shuf_i,
                    reg, swap_a, row, hist >>

\* lines 125-127: the cascade after a full board
CascadeFull(t) ==
    /\ Running(t)
    /\ pc[t] = "cascade_full"
    /\ BackTraceStep(t)
    /\ IF track'[t][step'[t]].k = MAX_MOVE_PATTERN
       THEN pc' = [pc EXCEPT ![t] = "cascade_full"] /\ UNCHANGED num_pattern
       ELSE WhileTest(t, num_try[t])
    /\ UNCHANGED << cfg, main_pc, shared, num_start, num_try, move, shuf_i,
                    reg, swap_a, row, hist >>

\* after BackTraceBelow the loops run on memory outside track: the process
\* is killed by a fault ...
UndefinedCrash(t) ==
    /\ Running(t)
    /\ pc[t] = "undefined"
    /\ main_pc' = "crashed"
    /\ UNCHANGED << cfg, shared, private, hist >>

\* ... or the value read at track[step][2] below the array is again
\* MAX_MOVE_PATTERN and the cascade goes further down
UndefinedCascade(t) ==
    /\ Running(t)
    /\ pc[t] = "undefined"
    /\ step[t] > -1 - GarbageCap
    /\ step' = [step EXCEPT ![t] = @ - 1]
    /\ UNCHANGED << cfg, main_pc, shared, pc, num_start, num_pattern, num_try,
                    board, track, move, shuf_i, reg, swap_a, row, hist >>

-----------------------------------------------------------------------------
(* lines 106-121: the omp critical region of a full-board event *)

\* the region entered without "#pragma omp critical"
LockIgnored(t) == TRUE

\* the lock of "#pragma omp critical" is free
LockFree(t) == lock = NoThread

\* entry of the region
CritEnter(t) ==
    /\ Running(t)
    /\ pc[t] = "critical"
    /\ LockFree(t)
    /\ lock' = t
    /\ pc' = [pc EXCEPT ![t] = "found_ld"]
    /\ UNCHANGED << cfg, main_pc, rng, fc, sink, num_found, num_closed,
                    num_opened, num_start, num_pattern, step, num_try, board,
                    track, move, shuf_i, reg, swap_a, row, hist >>

\* line 108, ++num_found: the counter is read ...
FoundLoad(t) ==
    /\ Running(t)
    /\ pc[t] = "found_ld"
    /\ reg' = [reg EXCEPT ![t] = num_found]
    /\ pc' = [pc EXCEPT ![t] = "found_st"]
    /\ UNCHANGED << cfg, main_pc, shared, num_start, num_pattern, step,
                    num_try, board, track, move, shuf_i, swap_a, row, hist >>

ClosedNow(t) == ClosedAt(track[t])

\* ... and written back; line 109: the tour is classified
FoundStore(t) ==
    /\ Running(t)
    /\ pc[t] = "found_st"
    /\ num_found' = reg[t] + 1
    /\ pc' = [pc EXCEPT ![t] = IF ClosedNow(t) THEN "closed_ld" ELSE "opened_ld"]
    /\ UNCHANGED << cfg, main_pc, rng, fc, sink, num_closed, num_opened, lock,
                    num_start, num_pattern, step, num_try, board, track, move,
                    shuf_i, reg, swap_a, row, hist >>

\* line 112, ++num_closed: read
ClosedLoad(t) ==
    /\ Running(t)
    /\ pc[t] = "closed_ld"
    /\ reg' = [reg EXCEPT ![t] = num_closed]
    /\ pc' = [pc EXCEPT ![t] = "closed_st"]
    /\ UNCHANGED << cfg, main_pc, shared, num_start, num_pattern, step,
                    num_try, board, track, move, shuf_i, swap_a, row, hist >>

\* line 112, ++num_closed: write; line 114: fPrintBoard entered, j = LY-1
ClosedStore(t) ==
    /\ Running(t)
    /\ pc[t] = "closed_st"
    /\ num_closed' = reg[t] + 1
    /\ row' = [row EXCEPT ![t] = LY - 1]
    /\ pc' = [pc EXCEPT ![t] = "print"]
    /\ UNCHANGED << cfg, main_pc, rng, fc, sink, num_found, num_opened, lock,
                    num_start, num_pattern, step, num_try, board, track, move,
                    shuf_i, reg, swap_a, hist >>

\* line 118, ++num_opened: read
OpenedLoad(t) ==
    /\ Running(t)
    /\ pc[t] = "opened_ld"
    /\ reg' = [reg EXCEPT ![t] = num_opened]
    /\ pc' = [pc EXCEPT ![t] = "opened_st"]
    /\ UNCHANGED << cfg, main_pc, shared, num_start, num_pattern, step,
                    num_try, board, track, move, shuf_i, swap_a, row, hist >>

\* ++num_opened adding two
OpenedStoreTwice(t) ==
    /\ Running(t)
    /\ pc[t] = "opened_st"
    /\ num_opened' = reg[t] + 2
    /\ pc' = [pc EXCEPT ![t] = "crit_exit"]
    /\ UNCHANGED << cfg, main_pc, rng, fc, sink, num_found, num_closed, lock,
                    num_start, num_pattern, step, num_try, board, track, move,
                    shuf_i, reg, swap_a, row, hist >>

\* line 118, ++num_opened: write
OpenedStore(t) ==
    /\ Running(t)
    /\ pc[t] = "opened_st"
    /\ num_opened' = reg[t] + 1
    /\ pc' = [pc EXCEPT ![t] = "crit_exit"]
    /\ UNCHANGED << cfg, main_pc, rng, fc, sink, num_found, num_closed, lock,
                    num_start, num_pattern, step, num_try, board, track, move,
                    shuf_i, reg, swap_a, row, hist >>

\* fPrintBoard, lines 232-237: one pass of the loop over j writes row j
PrintRow(t) ==
    /\ Running(t)
    /\ pc[t] = "print"
    /\ fc = "open"
    /\ row[t] >= 0
    /\ sink' = Append(sink, RowText(board[t], row[t]))
    /\ row' = [row EXCEPT ![t] = @ - 1]
    /\ UNCHANGED << cfg, main_pc, rng, fc, num_found, num_closed, num_opened,
                    lock, pc, num_start, num_pattern, step, num_try, board,
                    track, move, shuf_i, reg, swap_a, hist >>

\* fPrintBoard, line 238: the empty line that ends the block
PrintBlank(t) ==
    /\ Running(t)
    /\ pc[t] = "print"
    /\ fc = "open"
    /\ row[t] < 0
    /\ sink' = Append(sink, << >>)
    /\ pc' = [pc EXCEPT ![t] = "crit_exit"]
    /\ UNCHANGED << cfg, main_pc, rng, fc, num_found, num_closed, num_opened,
                    lock, num_start, num_pattern, step, num_try, board, track,
                    move, shuf_i, reg, swap_a, row, hist >>

\* fPrintBoard with fc == NULL: fprintf(NULL, ...) is undefined; the process
\* is killed, or nothing is written and the call returns
PrintNull(t) ==
    /\ Running(t)
    /\ pc[t] = "print"
    /\ fc = "null"
    /\ \/ main_pc' = "crashed" /\ UNCHANGED pc
       \/ pc' = [pc EXCEPT ![t] = "crit_exit"] /\ UNCHANGED main_pc
    /\ UNCHANGED << cfg, shared, num_start, num_pattern, step, num_try, board,
                    track, move, shuf_i, reg, swap_a, row, hist >>

\* end of the region
CritExit(t) ==
    /\ Running(t)
    /\ pc[t] = "crit_exit"
    /\ lock' = NoThread
    /\ pc' = [pc EXCEPT ![t] = "backtrace"]
    /\ UNCHANGED << cfg, main_pc, rng, fc, sink, num_found, num_closed,
                    num_opened, num_start, num_pattern, step, num_try, board,
                    track, move, shuf_i, reg, swap_a, row, hist >>

-----------------------------------------------------------------------------

AllThreads == 0..(MaxThreads - 1)

\* the steps of a run in which nothing undefined is executed
Regular ==
    \/ ConfigError
    \/ OpenSink
    \/ CloseSink
    \/ Report
    \/ \E t \in AllThreads : Fork(t)
    \/ \E t \in AllThreads : NextStart(t)
    \/ \E t \in AllThreads : NextPattern(t)
    \/ \E t \in AllThreads : RandLoadA(t)
    \/ \E t \in AllThreads : RandStoreA(t)
    \/ \E t \in AllThreads : RandLoadB(t)
    \/ \E t \in AllThreads : RandStoreB(t)
    \/ \E t \in AllThreads : BeginSearch(t)
    \/ \E t \in AllThreads : TryFail(t)
    \/ \E t \in AllThreads : TryAccept(t)
    \/ \E t \in AllThreads : Cascade(t)
    \/ \E t \in AllThreads : ForcedBackTrace(t)
    \/ \E t \in AllThreads : CascadeFull(t)
    \/ \E t \in AllThreads : CritEnter(t)
    \/ \E t \in AllThreads : FoundLoad(t)
    \/ \E t \in AllThreads : FoundStore(t)
    \/ \E t \in AllThreads : ClosedLoad(t)
    \/ \E t \in AllThreads : ClosedStore(t)
    \/ \E t \in AllThreads : OpenedLoad(t)
    \/ \E t \in AllThreads : OpenedStore(t)
    \/ \E t \in AllThreads : PrintRow(t)
    \/ \E t \in AllThreads : PrintBlank(t)
    \/ \E t \in AllThreads : CritExit(t)

\* the steps that execute, or follow, undefined behaviour
Undefined ==
    \/ CloseNull
    \/ \E t \in AllThreads : PrintNull(t)
    \/ \E t \in AllThreads : BackTraceBelow(t)
    \/ \E t \in AllThreads : UndefinedCrash(t)
    \/ \E t \in AllThreads : UndefinedCascade(t)

Next == Regular \/ Undefined

Spec == Init /\ [][Next]_vars

\* the run under a scheduler that lets the process go on whenever it has a
\* step to take: the threads of the team run until the barrier at the end of
\* the parallel loop, and the initial thread goes on after it
SpecFair == Init /\ [][Next]_vars /\ WF_vars(Next)

-----------------------------------------------------------------------------
(* The runs with two threads that both find a closed tour *)

RunsSink ==
    { Run(10, 3, 5, 0, 2, 1, BudgetClosed, 1, 2, 86, TRUE) }

SpecSink == InitWith(Runs \cup RunsSink) /\ [][Next]_vars

-----------------------------------------------------------------------------
(* ShuffleMovePattern alone: one call on a given order, every pair of      *)
(* indices below ShuffleIdx may be drawn in every iteration                *)

ShuffleIdx == 3

Reversed == [i \in 0..(MAX_MOVE_PATTERN - 1) |->
                InitialMove[MAX_MOVE_PATTERN - 1 - i]]

ShuffleInputs == { InitialMove, Reversed }

\* thread 0 has just entered ShuffleMovePattern (line 83) with some order
InitShuffle ==
    /\ cfg \in { Run(6, 6, 5, 5, 1, 1, BudgetTiny, 10, 1, 86, TRUE) }
    /\ main_pc = "parallel"
    /\ rng = Srand(cfg.seed)
    /\ fc = "open"
    /\ sink = << >>
    /\ num_found = 0
    /\ num_closed = 0
    /\ num_opened = 0
    /\ lock = NoThread
    /\ pc = [t \in Threads |-> "shuffle"]
    /\ num_start = [t \in Threads |-> 0]
    /\ num_pattern = [t \in Threads |-> 0]
    /\ step = [t \in Threads |-> 0]
    /\ num_try = [t \in Threads |-> 0]
    /\ board = [t \in Threads |-> EmptyBoard]
    /\ track = [t \in Threads |->
                   [s \in 0..(N - 1) |->
                       IF s = 0 THEN [x |-> cfg.sx, y |-> cfg.sy, k |-> 0]
                                ELSE [x |-> 0, y |-> 0, k |-> 0]]]
    /\ move \in [Threads -> ShuffleInputs]
    /\ shuf_i = [t \in Threads |-> 0]
    /\ reg = [t \in Threads |-> 0]
    /\ swap_a = [t \in Threads |-> 0]
    /\ row = [t \in Threads |-> 0]
    /\ log = << >>
    /\ shuffle_in = move
    /\ swapped = [t \in Threads |-> 0]
    /\ accepted = [t \in Threads |-> << >>]
    /\ run_no = 1
    /\ prev = [log |-> << >>, sink |-> << >>, num_found |-> 0,
               num_closed |-> 0, num_opened |-> 0]

\* lines 190-201 with the values of the two rand() calls given
ShuffleDraw(t, a, b) ==
    /\ Running(t)
    /\ pc[t] = "shuffle"
    /\ shuf_i[t] < RANDOM_MOVE_PATTERN
    /\ SwapDrawn(t, a, b)
    /\ UNCHANGED << cfg, main_pc, shared, num_start, num_pattern, step,
                    num_try, board, track, reg, swap_a, row, log, shuffle_in,
                    accepted, run_no, prev >>

NextShuffle ==
    \E t \in AllThreads : \E a, b \in 0..(ShuffleIdx - 1) : ShuffleDraw(t, a, b)

SpecShuffle == InitShuffle /\ [][NextShuffle]_vars

-----------------------------------------------------------------------------
(* The program run twice with the same clock value and one thread: after   *)
(* the first run has ended, Restart starts the second from the state of    *)
(* Init and keeps what the first run produced in prev.                     *)

Restart ==
    /\ main_pc \in {"done", "exit_error"}
    /\ run_no = 1
    /\ run_no' = 2
    /\ prev' = [log |-> log, sink |-> sink, num_found |-> num_found,
                num_closed |-> num_closed, num_opened |-> num_opened]
    /\ main_pc' = "check"
    /\ rng' = Srand(Clock(2))
    /\ fc' = "unopened"
    /\ sink' = << >>
    /\ num_found' = 0
    /\ num_closed' = 0
    /\ num_opened' = 0
    /\ lock' = NoThread
    /\ pc' = [t \in Threads |-> "fork"]
    /\ num_start' = [t \in Threads |-> 0]
    /\ num_pattern' = [t \in Threads |-> 0]
    /\ step' = [t \in Threads |-> 0]
    /\ num_try' = [t \in Threads |-> 0]
    /\ board' = [t \in Threads |-> EmptyBoard]
    /\ track' = [t \in Threads |->
                    [s \in 0..(N - 1) |-> [x |-> 0, y |-> 0, k |-> 0]]]
    /\ move' = [t \in Threads |-> InitialMove]
    /\ shuf_i' = [t \in Threads |-> 0]
    /\ reg' = [t \in Threads |-> 0]
    /\ swap_a' = [t \in Threads |-> 0]
    /\ row' = [t \in Threads |-> 0]
    /\ log' = << >>
    /\ shuffle_in' = [t \in Threads |-> InitialMove]
    /\ swapped' = [t \in Threads |-> 0]
    /\ accepted' = [t \in Threads |-> << >>]
    /\ UNCHANGED cfg

\* the configurations with one thread
RunsRepeat == { c \in Runs : c.nthreads = 1 }

NextRepeat == Next \/ Restart

SpecRepeat == InitWith(RunsRepeat) /\ [][NextRepeat]_vars

-----------------------------------------------------------------------------
(* Properties *)

\* thread t is inside the omp critical region
InRegion(t) ==
    pc[t] \in {"found_ld", "found_st", "closed_ld", "closed_st", "opened_ld",
               "opened_st", "print", "crit_exit"}

\* full-board events whose ++num_found is still to come
FoundPending ==
    Cardinality({t \in Threads : pc[t] \in {"critical", "found_ld", "found_st"}})

\* full-board events whose ++num_closed or ++num_opened is still to come
ClassPending ==
    Cardinality({t \in Threads :
        pc[t] \in {"critical", "found_ld", "found_st", "closed_ld",
                   "closed_st", "opened_ld", "opened_st"}})

\* C1: the handling of a full-board event is one indivisible region: at most
\* one thread is inside it, its owner holds the lock, and no increment is
\* lost: num_found counts every event whose increment has been executed,
\* exactly one of num_closed / num_opened is incremented per event, and when
\* the run ends num_found equals the number of full-board events
C1_IndivisibleRegion ==
    /\ \A t, u \in Threads : InRegion(t) /\ InRegion(u) => t = u
    /\ \A t \in Threads : InRegion(t) => lock = t
    /\ num_found + FoundPending = events
    /\ num_closed + num_opened + ClassPending = events
    /\ main_pc \in {"report", "done"} => num_found = events

\* C1, witness: one thread is leaving the region after its increments while
\* another one, with a full board of its own, waits to enter
C1_Contention ==
    \E t, u \in Threads :
        /\ t /= u
        /\ pc[t] = "crit_exit"
        /\ pc[u] = "critical"
        /\ num_found >= 1

\* lines of one block of the sink: LY rows and the empty line
BlockLen == LY + 1

\* the value block b of the sink gives for cell (x, y)
SinkCell(b, x, y) == sink[b * BlockLen + (LY - y)][x + 1]

\* block b of the sink is a whole board dump: LY lines of LX values, rows
\* LY-1 down to 0, then an empty line; the N cells carry the N values 1..N,
\* so every value is on exactly one cell
WholeBlock(b) ==
    /\ \A i \in 1..LY : Len(sink[b * BlockLen + i]) = LX
    /\ sink[b * BlockLen + BlockLen] = << >>
    /\ {SinkCell(b, c[1], c[2]) : c \in Cells} = 1..N

\* in block b the cell numbered N is a knight move away from the cell numbered 1
ClosedBlock(b) ==
    LET c == CHOOSE c \in Cells : SinkCell(b, c[1], c[2]) = 1
        d == CHOOSE d \in Cells : SinkCell(b, d[1], d[2]) = N
    IN  {Abs(c[1] - d[1]), Abs(c[2] - d[2])} = {1, 2}

\* the rows thread t has written of the block it is printing
RowsWritten(t) == IF pc[t] = "print" THEN LY - 1 - row[t] ELSE 0

\* C2: when the sink was opened it holds only closed tours, whole and not
\* interleaved: its lines are complete blocks followed by the rows written so
\* far by the one thread inside fPrintBoard, each complete block is a full
\* board whose last cell is a knight move from the first, the rows in progress
\* are rows of that thread's board, and the number of blocks (counting the one
\* in progress) is num_closed
C2_SinkBlocks ==
    fc \in {"open", "closed"} =>
        LET printing == {t \in Threads : pc[t] = "print"}
            done == num_closed - Cardinality(printing)
        IN  /\ Cardinality(printing) <= 1
            /\ printing = {} => Len(sink) = done * BlockLen
            /\ \A t \in printing :
                   /\ Len(sink) = done * BlockLen + RowsWritten(t)
                   /\ \A i \in 1..RowsWritten(t) :
                          sink[done * BlockLen + i] =
                              [x \in 1..LX |-> board[t][<<x - 1, LY - i>>]]
            /\ \A b \in 0..(done - 1) : WholeBlock(b) /\ ClosedBlock(b)

\* C2, witness: two threads have each appended a closed tour
C2_TwoBlocks ==
    /\ cfg.nthreads = 2
    /\ num_closed = 2
    /\ Len(sink) = 2 * BlockLen
    /\ \A t \in Threads : pc[t] /= "print"

\* positions of the search loop of an attempt (lines 90-131)
InSearch(t) ==
    pc[t] \in {"try", "cascade", "cascade_full", "critical", "backtrace"}
        \/ InRegion(t)

\* C3: in every state of the search loop the nonzero values of the thread's
\* board are exactly 1..step+1, each on exactly one cell; at a full-board
\* event the board holds each of 1..N once and no zero
C3_BoardValues ==
    \A t \in Threads :
        InSearch(t) =>
            /\ \A c \in Cells : board[t][c] \in 0..(step[t] + 1)
            /\ \A v \in 1..(step[t] + 1) :
                   Cardinality({c \in Cells : board[t][c] = v}) = 1

\* C3, witness: a full-board event, every cell numbered
C3_FullBoard ==
    \E t \in Threads :
        /\ pc[t] = "critical"
        /\ step[t] = N - 1
        /\ \A c \in Cells : board[t][c] /= 0

\* C4: the cascade stops when step drops below 0 and the attempt then
\* stops: step is never below -1, and a thread whose step is below 0 has
\* left the search loop of the attempt
C4_CascadeStopsBelowZero ==
    \A t \in Threads :
        /\ step[t] >= -1
        /\ step[t] < 0 => pc[t] \in {"pattern", "iter", "joined"}

\* nothing has been started: no thread has left the fork, the sink was never
\* opened or written, the counters are 0
NothingStarted ==
    /\ main_pc \in {"check", "exit_error"}
    /\ fc = "unopened"
    /\ sink = << >>
    /\ num_found = 0 /\ num_closed = 0 /\ num_opened = 0
    /\ \A t \in Threads : pc[t] = "fork" /\ num_try[t] = 0

\* C5 as claimed: a budget of 8^(N-1) or more takes the configuration-error
\* path: no unit is launched, the sink is never opened, the counters stay 0
C5_ErrorFromPowNMinus1 ==
    (N <= 11 /\ MAX_TRY >= 8 ^ (N - 1)) => NothingStarted

\* C5 as amended: a budget of 8^N or more takes the configuration-error path:
\* no unit is launched, the sink is never opened, the counters stay 0
C5_ErrorFromPowN ==
    (N <= 10 /\ MAX_TRY >= 8 ^ N) => NothingStarted

\* C5, witness: the error exit taken with a budget of at least 8^N
C5_ErrorExit ==
    main_pc = "exit_error" /\ N <= 10 /\ MAX_TRY >= 8 ^ N

\* C6: when the sink cannot be opened no unit is launched, no move is
\* evaluated and no write to the sink is attempted
C6_NoSearchWithoutSink ==
    fc = "null" =>
        \A t \in Threads :
            pc[t] = "fork" /\ num_try[t] = 0 /\ pc[t] /= "print"

\* C7: the generator state is never accessed by two units concurrently: no
\* two threads are at the same time between the read and the write of the
\* generator state of a rand() call
C7_NoConcurrentRand ==
    \A t, u \in Threads :
        pc[t] \in {"rand_a", "rand_b"} /\ pc[u] \in {"rand_a", "rand_b"}
            => t = u

\* thread t is executing a (start, pattern) unit
InUnit(t) == pc[t] \notin {"fork", "iter", "joined", "undefined"}

\* the variables of the loop body of thread t
PrivateOf(t) ==
    << pc[t], num_start[t], num_pattern[t], step[t], num_try[t], board[t],
       track[t], move[t], shuf_i[t], reg[t], swap_a[t], row[t] >>

\* C8 as claimed: every (start, pattern) unit owns a MoveSet no other unit
\* reads or writes: when a unit begins, its MoveSet is the table of the
\* declaration, untouched by any other unit
C8_UnitOwnsMoveSet ==
    \A t \in Threads :
        pc[t] = "shuffle" /\ shuf_i[t] = 0 => move[t] = InitialMove

\* C8 as amended: the run is partitioned into MAX_START tasks, one per start,
\* spread over the threads in contiguous blocks; a step of one thread changes
\* no other thread's Board, Track or MoveSet; the patterns of one start run
\* one after the other on the same thread, the next one beginning with the
\* MoveSet and the start cell the previous one left
C8_StartsIndependent ==
    [][ /\ \A t, u \in Threads :
              t /= u /\ PrivateOf(t)' /= PrivateOf(t)
                  => PrivateOf(u)' = PrivateOf(u)
        /\ \A t, u \in Threads :
              t /= u /\ InUnit(t) /\ InUnit(u)
                  => num_start[t] /= num_start[u]
        /\ \A t \in Threads :
              InUnit(t)
                  => FirstStart(t) <= num_start[t] /\ num_start[t] < EndStart(t)
        /\ \A t \in Threads :
              pc[t] = "pattern" /\ pc'[t] = "shuffle"
                  => /\ move'[t] = move[t]
                     /\ track'[t][0].x = track[t][0].x
                     /\ track'[t][0].y = track[t][0].y
                     /\ num_start'[t] = num_start[t]
        /\ \A t \in Threads :
              num_pattern'[t] \in {num_pattern[t], num_pattern[t] + 1, 0}
      ]_vars

\* C8, witness: two threads search for different starts at the same time
C8_TwoStartsSearching ==
    \E t, u \in Threads :
        /\ pc[t] = "try" /\ pc[u] = "try"
        /\ num_start[t] /= num_start[u]
        /\ num_try[t] > 0 /\ num_try[u] > 0

IsPrefix(a, b) ==
    Len(a) <= Len(b) /\ \A i \in 1..Len(a) : a[i] = b[i]

ShuffleOver(t) == pc[t] = "shuffle" /\ shuf_i[t] = RANDOM_MOVE_PATTERN

\* C10 as claimed: after every call of ShuffleMovePattern the order of the
\* MoveSet differs from the order before the call
C10_ShuffleAlwaysChanges ==
    \A t \in Threads : ShuffleOver(t) => move[t] /= shuffle_in[t]

\* C10 as amended: after a call of ShuffleMovePattern in which an odd number
\* of the drawn pairs had a /= b, the order of the MoveSet differs from the
\* order before the call
C10_OddSwapsChange ==
    \A t \in Threads :
        ShuffleOver(t) /\ swapped[t] % 2 = 1 => move[t] /= shuffle_in[t]

\* C10, witness: a call has ended after an odd number of pairs with a /= b
C10_OddShuffleOver ==
    \E t \in Threads :
        ShuffleOver(t) /\ swapped[t] % 2 = 1 /\ move[t] /= shuffle_in[t]

\* the cells c and d are a knight move apart
KnightApart(c, d) == {Abs(c[1] - d[1]), Abs(c[2] - d[2])} = {1, 2}

\* the cell of frame s of track trk
CellOf(trk, s) == << trk[s].x, trk[s].y >>

\* C11: IsClosedTour(x, y, a, b) is true exactly when (|x-a|, |y-b|) is (1,2)
\* or (2,1), for all cells of the board, and does not depend on the order of
\* its two cells; at a full-board event it is applied to Track[N-1] and
\* Track[0]: the event is recorded and counted as closed exactly when the
\* last cell placed is a knight move away from the first
C11_ClosedTest ==
    /\ main_pc = "check" =>
           \A c, d \in Cells :
               /\ IsClosedTour(c[1], c[2], d[1], d[2]) <=> KnightApart(c, d)
               /\ IsClosedTour(c[1], c[2], d[1], d[2])
                      <=> IsClosedTour(d[1], d[2], c[1], c[2])
    /\ \A t \in Threads :
           LET last == CellOf(track[t], N - 1)
               first == CellOf(track[t], 0)
           IN  /\ pc[t] \in {"critical", "found_ld", "found_st"} =>
                      /\ board[t][first] = 1 /\ board[t][last] = N
                      /\ ClosedNow(t) <=> KnightApart(last, first)
                      /\ ClosedNow(t) <=>
                             IsClosedTour(first[1], first[2], last[1], last[2])
               /\ pc[t] \in {"closed_ld", "closed_st", "print"}
                      => KnightApart(last, first)
               /\ pc[t] \in {"opened_ld", "opened_st"}
                      => ~KnightApart(last, first)
    /\ \A i \in 1..Len(log) :
           log[i].closed <=>
               \E c, d \in Cells :
                   /\ log[i].board[c] = 1 /\ log[i].board[d] = N
                   /\ KnightApart(c, d)

\* C11, witness: a full board whose last cell is one column and two rows
\* away from the first has been classified as closed
C11_ClosedEvent ==
    \E t \in Threads :
        /\ pc[t] = "closed_ld"
        /\ Abs(track[t][N - 1].x - track[t][0].x) = 1
        /\ Abs(track[t][N - 1].y - track[t][0].y) = 2

\* C12: in every state in which no thread is inside the critical region, and
\* in the final report, 0 <= num_closed <= num_opened + num_closed <= num_found
C12_CounterOrder ==
    ((\A t \in Threads : ~InRegion(t)) \/ main_pc \in {"report", "done"}) =>
        /\ 0 <= num_closed
        /\ num_closed <= num_opened + num_closed
        /\ num_opened + num_closed <= num_found

\* C12, witness: the report of a run of two threads that each found a tour
C12_ReportTwoFound ==
    /\ main_pc = "done"
    /\ cfg.nthreads = 2
    /\ num_found = 2
    /\ num_opened + num_closed = 2

\* C13: on the 3x3 board, with a budget below the configuration bound and
\* above the size of the search space, every attempt ends in a defined way:
\* the process is not killed, no attempt leaves the defined behaviour of the
\* search loop, step stays at 0 or above, no tour is counted as closed and
\* nothing is written to the sink
C13_OddBoardEndsClean ==
    (LX = 3 /\ LY = 3 /\ ~BudgetTooLarge(MAX_TRY, N) /\ MAX_TRY > 120) =>
        /\ main_pc /= "crashed"
        /\ \A t \in Threads : pc[t] /= "undefined" /\ step[t] >= 0
        /\ num_closed = 0
        /\ sink = << >>

\* thread t is executing an attempt (lines 82-131)
InAttempt(t) ==
    pc[t] \in {"shuffle", "rand_a", "shuffle_b", "rand_b", "undefined"}
        \/ InSearch(t)

\* C14: in every state of an attempt step is in 0..N-1 and every frame cursor
\* is in 0..8; TryMove is evaluated only with a cursor in 0..7; BackTrace is
\* never called with step = 0, so the indices step and step-1 it uses are
\* in 0..N-1
C14_IndicesInRange ==
    \A t \in Threads :
        InAttempt(t) =>
            /\ step[t] \in 0..(N - 1)
            /\ \A s \in 0..(N - 1) : track[t][s].k \in 0..MAX_MOVE_PATTERN
            /\ pc[t] = "try" => track[t][step[t]].k < MAX_MOVE_PATTERN
            /\ pc[t] \in {"cascade", "cascade_full", "backtrace"}
                   => step[t] >= 1

\* C16: num_try never exceeds MAX_TRY, and no TryMove is evaluated once
\* num_try has reached MAX_TRY
C16_TryBounded ==
    \A t \in Threads :
        /\ num_try[t] <= MAX_TRY
        /\ pc[t] = "try" => num_try[t] < MAX_TRY

\* the Track invariant of thread t: frame 0 is the start cell, numbered 1, and
\* every frame s in 1..step is the frame below it moved by the MoveSet entry
\* of that frame's cursor, on the board, and numbered s+1
TrackInv(t) ==
    /\ CellOf(track[t], 0) = << cfg.sx, cfg.sy >>
    /\ board[t][CellOf(track[t], 0)] = 1
    /\ \A s \in 1..step[t] :
           LET k == track[t][s - 1].k
           IN  /\ k \in 0..(MAX_MOVE_PATTERN - 1)
               /\ track[t][s].x = track[t][s - 1].x + move[t][k][1]
               /\ track[t][s].y = track[t][s - 1].y + move[t][k][2]
               /\ InBoard(track[t][s].x, track[t][s].y)
               /\ board[t][CellOf(track[t], s)] = s + 1

\* C15: the Track invariant holds throughout the search loop, and AcceptMove
\* (the only step that increases step) is taken only when TryMove succeeds in
\* the state before it for the same step and cursor; it leaves the cursor of
\* the frame below as it was, gives the new frame the cursor 0 and
\* establishes the Track invariant for the extended path
C15_AcceptKeepsTrack ==
    /\ [](\A t \in Threads : InSearch(t) => TrackInv(t))
    /\ [][\A t \in Threads :
              step'[t] = step[t] + 1 =>
                  /\ pc[t] = "try"
                  /\ TryMove(step[t], track[t][step[t]].k, track[t], board[t],
                             move[t])
                  /\ track'[t][step[t]].k = track[t][step[t]].k
                  /\ track'[t][step'[t]].k = 0
                  /\ TrackInv(t)'
       ]_vars

\* C15, witness: a path of three accepted moves, the third accepted with a
\* cursor above 0, the topmost frame not yet tried
C15_PathExtended ==
    \E t \in Threads :
        /\ pc[t] = "try"
        /\ step[t] = 3
        /\ track[t][3].k = 0
        /\ track[t][2].k > 0
        /\ board[t][CellOf(track[t], 3)] = 4

\* C17: every BackTrace (the steps the cascades and the forced backtrack
\* take) reverses an AcceptMove: it is called on a frame above frame 0,
\* lowers step by one, clears the one cell
\* that frame's AcceptMove numbered step+1, adds one to the cursor of the
\* frame below and changes no other cell, position or cursor, nor the MoveSet;
\* the BackTrace forced after a full-board event is taken once, from step N-1,
\* and the search resumes only at a frame whose cursor is below 8
C17_BackTraceReverses ==
    [][\A t \in Threads :
          /\ pc[t] \in {"cascade", "cascade_full", "backtrace"}
                 /\ PrivateOf(t)' /= PrivateOf(t) =>
                /\ step[t] >= 1
                /\ step'[t] = step[t] - 1
                /\ board[t][CellOf(track[t], step[t])] = step[t] + 1
                /\ board'[t] =
                       [board[t] EXCEPT ![CellOf(track[t], step[t])] = 0]
                /\ track'[t] = [track[t] EXCEPT ![step[t] - 1].k = @ + 1]
                /\ move'[t] = move[t]
          /\ pc[t] = "backtrace" /\ pc'[t] /= "backtrace" =>
                step[t] = N - 1 /\ step'[t] = N - 2
          /\ pc[t] \in {"backtrace", "cascade_full"} /\ pc'[t] = "try" =>
                track'[t][step'[t]].k < MAX_MOVE_PATTERN
      ]_vars

\* the array mv holds each of the 8 knight offsets exactly once
IsPermutation(mv) ==
    /\ DOMAIN mv = 0..(MAX_MOVE_PATTERN - 1)
    /\ {mv[i] : i \in DOMAIN mv} = {InitialMove[i] : i \in DOMAIN InitialMove}

\* C19: the MoveSet of every thread is at all times a permutation of the 8
\* knight offsets, whatever the shuffles of the successive patterns drew, and
\* no step taken inside the search loop changes it
C19_MoveSetPermutation ==
    /\ [](\A t \in Threads : IsPermutation(move[t]))
    /\ [][\A t \in Threads : move'[t] /= move[t] => ~InSearch(t)]_vars

\* C19, witness: the search of the second pattern of a start runs with a
\* MoveSet that two shuffles have taken away from the declared order
C19_ShuffledTwice ==
    \E t \in Threads :
        /\ pc[t] = "try"
        /\ num_pattern[t] = 1
        /\ num_try[t] > 0
        /\ move[t] /= InitialMove
        /\ move[t] /= shuffle_in[t]

\* the sink has been closed or the totals are being reported
Reporting == main_pc \in {"report", "done"} \/ fc = "closed"

\* C18: the sink is closed and the totals are reported only when every
\* thread has finished its iterations; from then on no counter changes, no
\* line is written and no full-board event occurs; and, scheduled fairly, a
\* run whose units were launched reaches the final report
C18_JoinThenReport ==
    /\ [](Reporting => \A t \in Threads : pc[t] = "joined")
    /\ [][Reporting =>
              UNCHANGED << num_found, num_closed, num_opened, sink, log >>]_vars
    /\ (main_pc = "parallel") ~> (main_pc = "done")

\* the sequence a is before the sequence b in lexicographic order
LexLess(a, b) ==
    \E i \in 1..Len(b) :
        /\ i <= Len(a) + 1
        /\ \A j \in 1..(i - 1) : a[j] = b[j]
        /\ (i = Len(a) + 1 \/ a[i] < b[i])

\* C20: within one attempt the cursors of the path, taken after each
\* AcceptMove, increase strictly in lexicographic order from one AcceptMove
\* to the next, and no two full-board events of the same attempt report the
\* same board
C20_PathsIncrease ==
    /\ [][\A t \in Threads :
              step'[t] = step[t] + 1 /\ accepted[t] /= << >>
                  => LexLess(accepted[t], accepted'[t])]_vars
    /\ [](\A i, j \in 1..Len(log) :
              /\ i < j
              /\ log[i].start = log[j].start
              /\ log[i].pattern = log[j].pattern
              => log[i].board /= log[j].board)

\* C20, witness: one attempt has reported two full boards and has accepted
\* a further move after backtracking from the second
C20_TwoBoardsOneAttempt ==
    /\ Len(log) >= 2
    /\ log[1].start = log[2].start
    /\ log[1].pattern = log[2].pattern
    /\ \E t \in Threads :
           /\ pc[t] = "try"
           /\ num_start[t] = log[2].start
           /\ num_pattern[t] = log[2].pattern
           /\ accepted[t] /= << >>
           /\ Len(accepted[t]) < N

====
